---- MODULE Spec2Model ----
(***************************************************************************)
(* Model of onnx-graph's build_proto (crates/onnx-graph/src/lib.rs) and of *)
(* the reachability methods of the Node trait and of the multi-output      *)
(* adapter (crates/onnx-graph/src/node.rs).                                *)
(*                                                                         *)
(* A graph is a sequence of tensor objects; the position of an object in   *)
(* the sequence is its identity (its address in the Rust code).  A         *)
(* single-output operation is one object that is both the Node and its     *)
(* output Tensor, so it has one identity; a multi-output operation is a    *)
(* Node of its own, named here by the position of its slot 0.              *)
(***************************************************************************)
EXTENDS Integers, Sequences, FiniteSets, Bags, TLC

VARIABLES
    graph,           \* the tensor objects the caller built (never mutated)
    inputs,          \* build_proto argument: declared input tensors
    outputs,         \* build_proto argument: (name, tensor) pairs
    weight_storage,  \* build_proto argument, "unset" until first read
    pc,              \* position inside build_proto
    nodes,           \* HashSet<&dyn Node>
    node_names,      \* HashMap<&dyn Node, String>
    tensors,         \* HashSet<&dyn Tensor>
    tensor_order,    \* the iteration order of the HashSet `tensors`
    chosen_names,    \* HashSet<String>
    tensor_names,    \* HashMap<&dyn Tensor, String>
    attempts,        \* every value next_tensor_id had when a candidate was formatted
    calls,           \* the calls made on tensors with the weight manager, in order
    data_manager,    \* the weight manager's state
    tensors_to_enumerate,
    initializers,
    result,          \* what build_proto returned
    prev             \* the outcome of the previous build_proto call on this graph

vars == <<graph, inputs, outputs, weight_storage, pc, nodes, node_names,
          tensors, tensor_order, chosen_names, tensor_names, attempts, calls,
          data_manager, tensors_to_enumerate, initializers, result, prev>>

----------------------------------------------------------------------------
(* Bounds of the explored inputs.                                          *)

MaxValues == 4
MaxArity == 2
MaxOutputs == 2
\* The size of the graphs that are built twice.
MaxValuesTwice == 3

NoName == "<none>"
ExplicitNames == {"x", "tensor_0"}
OutputNames == {"out", "x"}
Strategies == {"None", "BinFile", "EmbeddedData"}

----------------------------------------------------------------------------
(* Generic helpers.                                                        *)

Range(s) == {s[i] : i \in 1..Len(s)}

Perms(S) == {s \in [1..Cardinality(S) -> S] : \A i, j \in 1..Cardinality(S) : s[i] = s[j] => i = j}

\* Sequences without repetition, of length lo..hi, over S.
DistinctSeqs(S, lo, hi) ==
    UNION {{s \in [1..n -> S] : \A i, j \in 1..n : s[i] = s[j] => i = j} : n \in lo..hi}

Count(s, e) == Cardinality({i \in 1..Len(s) : s[i] = e})

----------------------------------------------------------------------------
(* The graphs a caller can build.  Objects are created one after the       *)
(* other and an operation's inputs exist before it does, so the graph is   *)
(* acyclic by construction.                                                *)

Leaf(kind, name) ==
    [kind |-> kind, name |-> name, nname |-> NoName, inputs |-> <<>>,
     parent |-> 0, index |-> 0]

SingleOp(id, name, ins) ==
    [kind |-> "single", name |-> name, nname |-> name, inputs |-> ins,
     parent |-> id, index |-> 0]

\* The multi-output operation itself is named by the position of its slot 0,
\* which carries the operation's name and inputs; a slot has no name of its own.
Slot(parent, index, nname, ins) ==
    [kind |-> "slot", name |-> NoName, nname |-> nname, inputs |-> ins,
     parent |-> parent, index |-> index]

RECURSIVE GraphsOfSize(_, _)
GraphsOfSize(n, names) ==
    IF n = 0 THEN {<<>>}
    ELSE LET smaller == GraphsOfSize(n - 1, names)
             leaves == {Append(g, Leaf(k, nm)) :
                            g \in smaller, k \in {"input", "const"}, nm \in names}
             singles == UNION {{Append(g, SingleOp(n, nm, ins)) :
                                   nm \in names,
                                   ins \in DistinctSeqs(1..(n - 1), 1, MaxArity)} :
                               g \in smaller}
             multis == IF n < 2 THEN {}
                       ELSE UNION {{g \o <<Slot(n - 1, 0, nm, ins), Slot(n - 1, 1, NoName, <<>>)>> :
                                       nm \in names,
                                       ins \in DistinctSeqs(1..(n - 2), 1, MaxArity)} :
                                   g \in GraphsOfSize(n - 2, names)}
         IN  leaves \cup singles \cup multis

----------------------------------------------------------------------------
(* The Tensor and Node capabilities of the objects of `graph`.             *)

Values == 1..Len(graph)

\* The Node objects: single-output operations, and multi-output operations
\* (named by their slot 0).
Operations == {n \in Values : graph[n].parent = n}

get_input_tensors(n) == graph[n].inputs

\* A single-output operation is its own output tensor; a multi-output
\* operation has one MultiOutputNodeOutput per slot.
get_output_tensors(n) ==
    IF graph[n].kind = "single" THEN <<n>>
    ELSE [i \in 1..Cardinality({v \in Values : graph[v].parent = n}) |-> n + i - 1]

Tensor_get_name(t) == graph[t].name

Node_get_name(n) == graph[n].nname

RECURSIVE get_nodes(_, _), SubNodesLoop(_, _), Tensor_get_nodes(_, _)
RECURSIVE TensorsLoop(_, _), Tensor_get_sub_tensors(_, _)

\* Node::get_sub_nodes: every input tensor adds its nodes to the table.
SubNodesLoop(ins, table) ==
    IF ins = <<>> THEN table
    ELSE SubNodesLoop(Tail(ins), Tensor_get_nodes(Head(ins), table))

get_sub_nodes(n, table) == SubNodesLoop(get_input_tensors(n), table)

\* Node::get_nodes: a node already in the table is not expanded again.
get_nodes(n, table) ==
    IF n \notin table THEN get_sub_nodes(n, table) \cup {n} ELSE table

\* impl Tensor for MultiOutputNodeOutput: get_nodes goes through the parent.
MultiOutputNodeOutput_get_nodes(t, table) ==
    LET parent == graph[t].parent
    IN  IF parent \notin table THEN get_sub_nodes(parent, table) \cup {parent} ELSE table

\* Tensor::get_nodes by the kind of the object: a leaf has no nodes, a
\* single-output operation is a Node itself.
Tensor_get_nodes(t, table) ==
    CASE graph[t].kind = "single" -> get_nodes(t, table)
      [] graph[t].kind = "slot" -> MultiOutputNodeOutput_get_nodes(t, table)
      [] OTHER -> table

\* Node::get_tensors: an input not yet in the table is inserted and expanded.
TensorsLoop(ins, table) ==
    IF ins = <<>> THEN table
    ELSE LET input == Head(ins)
         IN  IF input \notin table
             THEN TensorsLoop(Tail(ins), Tensor_get_sub_tensors(input, table \cup {input}))
             ELSE TensorsLoop(Tail(ins), table)

\* A get_tensors that inserts the inputs and does not expand them.
get_tensors_NoRecursion(n, table) == table \cup Range(get_input_tensors(n))

get_tensors(n, table) == TensorsLoop(get_input_tensors(n), table)

\* A get_sub_tensors that also inserts every slot of the parent.
MultiOutputNodeOutput_get_sub_tensors_WithSiblings(t, table) ==
    get_tensors(graph[t].parent, table \cup Range(get_output_tensors(graph[t].parent)))

\* impl Tensor for MultiOutputNodeOutput: get_sub_tensors is the parent's get_tensors.
MultiOutputNodeOutput_get_sub_tensors(t, table) == get_tensors(graph[t].parent, table)

Tensor_get_sub_tensors(t, table) ==
    CASE graph[t].kind = "single" -> get_tensors(t, table)
      [] graph[t].kind = "slot" -> MultiOutputNodeOutput_get_sub_tensors(t, table)
      [] OTHER -> table

\* build_proto, "Get all nodes in graph": the loop over the outputs.
RECURSIVE CollectNodesLoop(_, _)
CollectNodesLoop(outs, table) ==
    IF outs = <<>> THEN table
    ELSE CollectNodesLoop(Tail(outs), Tensor_get_nodes(Head(outs)[2], table))

\* build_proto, "Get all tensors in graph": the loop over the outputs.
RECURSIVE CollectTensorsLoop(_, _)
CollectTensorsLoop(outs, table) ==
    IF outs = <<>> THEN table
    ELSE LET tensor == Head(outs)[2]
         IN  CollectTensorsLoop(Tail(outs), Tensor_get_sub_tensors(tensor, table \cup {tensor}))

----------------------------------------------------------------------------
(* Initial states: a graph the caller built and the arguments of one       *)
(* build_proto call on it.                                                 *)

\* An ascending sequence of the elements of a set of tensors.
RECURSIVE SeqOf(_)
SeqOf(S) ==
    IF S = {} THEN <<>>
    ELSE LET m == CHOOSE e \in S : \A o \in S : e <= o
         IN  <<m>> \o SeqOf(S \ {m})

\* The declared inputs are InputTensor objects.
InputTensors == {v \in Values : graph[v].kind = "input"}

\* Output lists whose names may repeat.
OutputLists ==
    UNION {[1..n -> OutputNames \X Values] : n \in 0..MaxOutputs}

\* Output lists whose i-th output is named "out_<i>".
DistinctlyNamedOutputLists ==
    UNION {{[i \in 1..n |-> <<"out_" \o ToString(i), ts[i]>>] : ts \in [1..n -> Values]} :
           n \in 0..MaxOutputs}

\* Every object of the graph takes part in the call: it is reachable from an
\* output, declared as an input, or a slot of a reachable operation.  (An
\* object that is none of these is never looked at by build_proto.)
TakesPart(v) ==
    \/ v \in CollectTensorsLoop(outputs, {})
    \/ v \in Range(inputs)
    \/ graph[v].parent \in CollectNodesLoop(outputs, {})

NoCall == [status |-> "none"]

InitCall ==
    /\ weight_storage = "unset"
    /\ pc = "start"
    /\ nodes = {}
    /\ node_names = <<>>
    /\ tensors = {}
    /\ tensor_order = <<>>
    /\ chosen_names = {}
    /\ tensor_names = <<>>
    /\ attempts = <<>>
    /\ calls = <<>>
    /\ data_manager = [kind |-> "none", gathered |-> {}, finalized |-> FALSE]
    /\ tensors_to_enumerate = <<>>
    /\ initializers = <<>>
    /\ result = [status |-> "running"]

InitWith(graphs, named) ==
    /\ graph \in graphs
    /\ outputs \in IF named THEN OutputLists ELSE DistinctlyNamedOutputLists
    /\ \E declared \in (IF named THEN {InputTensors} ELSE SUBSET InputTensors) :
          inputs = SeqOf(declared)
    /\ \A v \in Values : TakesPart(v)
    /\ prev = NoCall
    /\ InitCall

----------------------------------------------------------------------------
(* build_proto, one action per section of the function.  A HashSet is      *)
(* iterated in an order the caller cannot control; the order of `tensors`  *)
(* is chosen when the set is complete and is the same in every loop over   *)
(* it, since the set is not modified afterwards.                           *)

\* An insert that keeps the entry a key already has (entry().or_insert).
Insert_KeepExisting(map, key, value) == map @@ (key :> value)

\* HashMap::insert: a later insert under the same key replaces the value.
Insert(map, key, value) == (key :> value) @@ map

\* lib.rs 75-90: the reachable nodes and the names they ask for.
CollectNodes ==
    /\ pc = "start"
    /\ nodes' = CollectNodesLoop(outputs, {})
    /\ node_names' = [n \in {m \in nodes' : Node_get_name(m) # NoName} |-> Node_get_name(n)]
    /\ pc' = "nodes"
    /\ UNCHANGED <<graph, inputs, outputs, weight_storage, tensors, tensor_order,
                   chosen_names, tensor_names, attempts, calls, data_manager,
                   tensors_to_enumerate, initializers, result, prev>>

\* lib.rs 92-98: the reachable tensors.
CollectTensors ==
    /\ pc = "nodes"
    /\ tensors' = CollectTensorsLoop(outputs, {})
    /\ tensor_order' \in Perms(tensors')
    /\ pc' = "tensors"
    /\ UNCHANGED <<graph, inputs, outputs, weight_storage, nodes, node_names,
                   chosen_names, tensor_names, attempts, calls, data_manager,
                   tensors_to_enumerate, initializers, result, prev>>

\* The loop of lib.rs 105-114 without the chosen_names.contains check.
RECURSIVE RequestedNamesLoop_NoConflictCheck(_, _, _)
RequestedNamesLoop_NoConflictCheck(order, chosen, names) ==
    IF order = <<>> THEN [err |-> NoName, chosen |-> chosen, names |-> names]
    ELSE LET tensor == Head(order)
             name == Tensor_get_name(tensor)
         IN  IF name # NoName
             THEN RequestedNamesLoop_NoConflictCheck(Tail(order), chosen \cup {name},
                                                     (tensor :> name) @@ names)
             ELSE RequestedNamesLoop_NoConflictCheck(Tail(order), chosen, names)

\* lib.rs 105-114: the loop that claims the requested names; err is the name
\* the loop returned NameConflictError for, NoName when it ran to its end.
RECURSIVE RequestedNamesLoop(_, _, _)
RequestedNamesLoop(order, chosen, names) ==
    IF order = <<>> THEN [err |-> NoName, chosen |-> chosen, names |-> names]
    ELSE LET tensor == Head(order)
             name == Tensor_get_name(tensor)
         IN  IF name # NoName
             THEN IF name \in chosen
                  THEN [err |-> name, chosen |-> chosen, names |-> names]
                  ELSE RequestedNamesLoop(Tail(order), chosen \cup {name},
                                          Insert(names, tensor, name))
             ELSE RequestedNamesLoop(Tail(order), chosen, names)

\* lib.rs 108-110: return Err(Error::NameConflictError(name)).
NameConflict ==
    /\ pc = "tensors"
    /\ LET r == RequestedNamesLoop(tensor_order, {}, <<>>)
       IN  /\ r.err # NoName
           /\ chosen_names' = r.chosen
           /\ tensor_names' = r.names
           /\ result' = [status |-> "Err", error |-> "NameConflictError", name |-> r.err]
    /\ pc' = "returned"
    /\ UNCHANGED <<graph, inputs, outputs, weight_storage, nodes, node_names,
                   tensors, tensor_order, attempts, calls, data_manager,
                   tensors_to_enumerate, initializers, prev>>

\* lib.rs 115-118: every declared output takes the name the caller gave it.
RECURSIVE OutputNamesLoop(_, _, _)
OutputNamesLoop(outs, chosen, names) ==
    IF outs = <<>> THEN [chosen |-> chosen, names |-> names]
    ELSE LET name == Head(outs)[1]
             tensor == Head(outs)[2]
         IN  OutputNamesLoop(Tail(outs), chosen \cup {name}, Insert(names, tensor, name))

\* format!("tensor_{}", next_tensor_id)
GeneratedName(id) == "tensor_" \o ToString(id)

\* The inner loop of lib.rs 123-129 taking the first candidate unchecked.
FindFreeName_NoCheck(id, chosen, tried) ==
    [name |-> GeneratedName(id), id |-> id, tried |-> Append(tried, id)]

\* lib.rs 123-129: the inner loop; id is next_tensor_id when the loop breaks.
RECURSIVE FindFreeName(_, _, _)
FindFreeName(id, chosen, tried) ==
    LET name == GeneratedName(id)
    IN  IF name \notin chosen
        THEN [name |-> name, id |-> id, tried |-> Append(tried, id)]
        ELSE FindFreeName(id + 1, chosen, Append(tried, id))

\* lib.rs 120-135: every tensor without a name gets a generated one.
RECURSIVE RemainingNamesLoop(_, _, _, _, _)
RemainingNamesLoop(order, next_tensor_id, chosen, names, tried) ==
    IF order = <<>> THEN [chosen |-> chosen, names |-> names, tried |-> tried]
    ELSE LET tensor == Head(order)
         IN  IF tensor \notin DOMAIN names
             THEN LET f == FindFreeName(next_tensor_id, chosen, tried)
                  IN  RemainingNamesLoop(Tail(order), f.id + 1, chosen \cup {f.name},
                                         Insert(names, tensor, f.name), f.tried)
             ELSE RemainingNamesLoop(Tail(order), next_tensor_id, chosen, names, tried)

\* lib.rs 100-135: the requested names, then the names of the declared
\* outputs, then generated names for every tensor still without one.
AssignNames ==
    /\ pc = "tensors"
    /\ LET requested == RequestedNamesLoop(tensor_order, {}, <<>>)
           declared == OutputNamesLoop(outputs, requested.chosen, requested.names)
           remaining == RemainingNamesLoop(tensor_order, 0, declared.chosen,
                                           declared.names, <<>>)
       IN  /\ requested.err = NoName
           /\ chosen_names' = remaining.chosen
           /\ tensor_names' = remaining.names
           /\ attempts' = remaining.tried
    /\ pc' = "named"
    /\ UNCHANGED <<graph, inputs, outputs, weight_storage, nodes, node_names,
                   tensors, tensor_order, calls, data_manager,
                   tensors_to_enumerate, initializers, result, prev>>

----------------------------------------------------------------------------
(* The weight manager and the calls build_proto makes with it.             *)

\* A get_manager that builds the null manager whatever the strategy.
get_manager_AlwaysNull(strategy) ==
    [kind |-> "NullOutputManager", gathered |-> {}, finalized |-> FALSE]

\* WeightStorageStrategy::get_manager
get_manager(strategy) ==
    [kind |-> CASE strategy = "None" -> "NullOutputManager"
                [] strategy = "BinFile" -> "BinOutputManager"
                [] strategy = "EmbeddedData" -> "EmbeddedOutputManager",
     gathered |-> {},
     finalized |-> FALSE]

\* Tensor::gather_weights: a constant hands its payload to the manager, any
\* other tensor does nothing.
gather_weights(tensor, manager) ==
    IF graph[tensor].kind = "const"
    THEN [manager EXCEPT !.gathered = @ \cup {tensor}]
    ELSE manager

finalize_tensor_data(manager) == [manager EXCEPT !.finalized = TRUE]

\* lib.rs 139-141: gather_weights on every tensor of the set.
RECURSIVE GatherLoop(_, _, _)
GatherLoop(order, manager, log) ==
    IF order = <<>> THEN [manager |-> manager, calls |-> log]
    ELSE GatherLoop(Tail(order), gather_weights(Head(order), manager),
                    Append(log, <<"gather_weights", Head(order)>>))

\* finalize_tensor_data called before the gather loop.
GatherAndFinalize_FinalizeFirst(order, manager) ==
    GatherLoop(order, finalize_tensor_data(manager), <<<<"finalize_tensor_data", 0>>>>)

\* lib.rs 139-142: the gather loop, then finalize_tensor_data.
GatherAndFinalize(order, manager) ==
    LET g == GatherLoop(order, manager, <<>>)
    IN  [manager |-> finalize_tensor_data(g.manager),
         calls |-> Append(g.calls, <<"finalize_tensor_data", 0>>)]

\* lib.rs 137-142
GatherWeights ==
    /\ pc = "named"
    /\ \E strategy \in Strategies :
          /\ weight_storage' = strategy
          /\ LET r == GatherAndFinalize(tensor_order, get_manager(strategy))
             IN  /\ data_manager' = r.manager
                 /\ calls' = r.calls
    /\ pc' = "gathered"
    /\ UNCHANGED <<graph, inputs, outputs, nodes, node_names, tensors, tensor_order,
                   chosen_names, tensor_names, attempts,
                   tensors_to_enumerate, initializers, result, prev>>

IsDeclaredInput(tensor) == \E i \in 1..Len(inputs) : inputs[i] = tensor

IsDeclaredOutput(tensor) == \E i \in 1..Len(outputs) : outputs[i][2] = tensor

\* The loop of lib.rs 146-151 comparing with the declared outputs only.
RECURSIVE ClassifyLoop_OutputsOnly(_, _)
ClassifyLoop_OutputsOnly(order, list) ==
    IF order = <<>> THEN list
    ELSE IF ~IsDeclaredOutput(Head(order))
         THEN ClassifyLoop_OutputsOnly(Tail(order), Append(list, Head(order)))
         ELSE ClassifyLoop_OutputsOnly(Tail(order), list)

\* lib.rs 146-151: the tensors that are neither a declared input nor a
\* declared output, in the order of the set.
RECURSIVE ClassifyLoop(_, _)
ClassifyLoop(order, list) ==
    IF order = <<>> THEN list
    ELSE LET tensor == Head(order)
         IN  IF ~IsDeclaredInput(tensor) /\ ~IsDeclaredOutput(tensor)
             THEN ClassifyLoop(Tail(order), Append(list, tensor))
             ELSE ClassifyLoop(Tail(order), list)

\* How a manager represents a gathered payload in an initializer entry.
PayloadOf(manager) ==
    CASE manager.kind = "NullOutputManager" -> "dropped"
      [] manager.kind = "BinOutputManager" -> "external"
      [] manager.kind = "EmbeddedOutputManager" -> "raw"

\* Tensor::get_initializer: Some(entry) for a constant, None for any other
\* tensor ("of" records the object the entry was made from).
get_initializer(tensor, name, manager) ==
    IF graph[tensor].kind = "const"
    THEN <<[of |-> tensor, name |-> name, data |-> PayloadOf(manager)]>>
    ELSE <<>>

\* lib.rs 155-159: failing is the tensor whose get_initializer returns an
\* error (0: none does); the `?` returns it from build_proto.
RECURSIVE InitializersLoop(_, _, _, _)
InitializersLoop(order, failing, list, log) ==
    IF order = <<>> THEN [err |-> FALSE, list |-> list, calls |-> log]
    ELSE LET tensor == Head(order)
             called == Append(log, <<"get_initializer", tensor>>)
         IN  IF tensor = failing
             THEN [err |-> TRUE, list |-> list, calls |-> called]
             ELSE InitializersLoop(Tail(order), failing,
                     list \o get_initializer(tensor, tensor_names[tensor], data_manager),
                     called)

\* lib.rs 144-159: the tensors to enumerate, then the initializer blocks.
GenerateInitializers ==
    /\ pc = "gathered"
    /\ tensors_to_enumerate' = ClassifyLoop(tensor_order, <<>>)
    /\ LET r == InitializersLoop(tensor_order, 0, <<>>, calls)
       IN  /\ initializers' = r.list
           /\ calls' = r.calls
    /\ pc' = "initializers"
    /\ UNCHANGED <<graph, inputs, outputs, weight_storage, nodes, node_names,
                   tensors, tensor_order, chosen_names, tensor_names, attempts,
                   data_manager, result, prev>>

\* lib.rs 156: a constant's get_initializer fails (an unresolved dimension,
\* an unsupported dtype) and the error is returned unchanged.
InitializerError ==
    /\ pc = "gathered"
    /\ tensors_to_enumerate' = ClassifyLoop(tensor_order, <<>>)
    /\ \E failing \in {t \in tensors : graph[t].kind = "const"} :
          LET r == InitializersLoop(tensor_order, failing, <<>>, calls)
          IN  /\ initializers' = r.list
              /\ calls' = r.calls
    /\ result' = [status |-> "Err", error |-> "InitializerError", name |-> NoName]
    /\ pc' = "returned"
    /\ UNCHANGED <<graph, inputs, outputs, weight_storage, nodes, node_names,
                   tensors, tensor_order, chosen_names, tensor_names, attempts,
                   data_manager, prev>>

----------------------------------------------------------------------------
(* The descriptor.                                                          *)

\* Tensor::to_value_info_proto ("of" records the object described).
to_value_info_proto(tensor, name) == [of |-> tensor, name |-> name]

\* Node::to_node_proto ("of" records the node described); tensor_names[..]
\* panics on a tensor that has no entry.
to_node_proto(node, name, names) ==
    [of |-> node,
     name |-> name,
     input |-> [i \in 1..Len(get_input_tensors(node)) |-> names[get_input_tensors(node)[i]]],
     output |-> [i \in 1..Len(get_output_tensors(node)) |-> names[get_output_tensors(node)[i]]]]

\* The tensors whose name lib.rs 163 and 166 look up with tensor_names[..].
IndexedTensors ==
    Range(inputs)
      \cup UNION {Range(get_input_tensors(n)) \cup Range(get_output_tensors(n)) : n \in nodes}

\* lib.rs 163: one NodeProto per element of `nodes`.  The order of the list is
\* the set's iteration order, which nothing else depends on: the list is kept
\* as the bag of its entries.
RECURSIVE NodeProtos(_)
NodeProtos(todo) ==
    IF todo = <<>> THEN EmptyBag
    ELSE LET node == Head(todo)
         IN  SetToBag({to_node_proto(node,
                                     IF node \in DOMAIN node_names THEN node_names[node] ELSE "",
                                     tensor_names)})
               (+) NodeProtos(Tail(todo))

\* lib.rs 161-171
GraphProto ==
    [node |-> NodeProtos(SeqOf(nodes)),
     initializer |-> initializers,
     input |-> [i \in 1..Len(inputs) |-> to_value_info_proto(inputs[i], tensor_names[inputs[i]])],
     output |-> [i \in 1..Len(outputs) |-> to_value_info_proto(outputs[i][2], outputs[i][1])],
     value_info |-> [i \in 1..Len(tensors_to_enumerate) |->
                        to_value_info_proto(tensors_to_enumerate[i],
                                            tensor_names[tensors_to_enumerate[i]])]]

\* lib.rs 161-187: Ok(ModelProto { graph: Some(graph), .. })
Assemble ==
    /\ pc = "initializers"
    /\ IndexedTensors \subseteq DOMAIN tensor_names
    /\ result' = [status |-> "Ok", graph |-> GraphProto]
    /\ pc' = "returned"
    /\ UNCHANGED <<graph, inputs, outputs, weight_storage, nodes, node_names,
                   tensors, tensor_order, chosen_names, tensor_names, attempts,
                   calls, data_manager, tensors_to_enumerate, initializers, prev>>

\* lib.rs 163, 166 and node.rs 54-55: indexing the name table with a tensor
\* it has no entry for panics.
AssemblePanic ==
    /\ pc = "initializers"
    /\ ~(IndexedTensors \subseteq DOMAIN tensor_names)
    /\ result' = [status |-> "panic"]
    /\ pc' = "returned"
    /\ UNCHANGED <<graph, inputs, outputs, weight_storage, nodes, node_names,
                   tensors, tensor_order, chosen_names, tensor_names, attempts,
                   calls, data_manager, tensors_to_enumerate, initializers, prev>>

Next ==
    \/ CollectNodes
    \/ CollectTensors
    \/ AssignNames
    \/ NameConflict
    \/ GatherWeights
    \/ GenerateInitializers
    \/ InitializerError
    \/ Assemble
    \/ AssemblePanic

\* Every graph of at most max objects, none of them named.
UnnamedGraphs(max) == UNION {GraphsOfSize(n, {NoName}) : n \in 1..max}

\* An input followed by a chain of single-output operations, every object
\* with any explicit name or none.
RECURSIVE NamedChains(_)
NamedChains(n) ==
    IF n = 1 THEN {<<Leaf("input", nm)>> : nm \in {NoName} \cup ExplicitNames}
    ELSE {Append(g, SingleOp(n, nm, <<n - 1>>)) :
              g \in NamedChains(n - 1), nm \in {NoName} \cup ExplicitNames}

NamedGraphs(max) == UNION {NamedChains(n) : n \in 1..max}

Init ==
    \/ InitWith(UnnamedGraphs(MaxValues), FALSE)
    \/ InitWith(NamedGraphs(MaxValues), TRUE)

Spec == Init /\ [][Next]_vars

----------------------------------------------------------------------------
(* Two build_proto calls in a row on the same graph with the same inputs   *)
(* and outputs: the caller keeps the first descriptor and calls again.     *)
(* Nothing of the first call survives in the second: every set and table   *)
(* is built afresh (and a new HashSet has an iteration order of its own).  *)

BuildAgain ==
    /\ pc = "returned"
    /\ result.status = "Ok"
    /\ prev = NoCall
    /\ prev' = [status |-> "Ok", weight_storage |-> weight_storage,
                tensor_order |-> tensor_order, tensor_names |-> tensor_names,
                graph |-> result.graph]
    /\ weight_storage' = "unset"
    /\ pc' = "start"
    /\ nodes' = {}
    /\ node_names' = <<>>
    /\ tensors' = {}
    /\ tensor_order' = <<>>
    /\ chosen_names' = {}
    /\ tensor_names' = <<>>
    /\ attempts' = <<>>
    /\ calls' = <<>>
    /\ data_manager' = [kind |-> "none", gathered |-> {}, finalized |-> FALSE]
    /\ tensors_to_enumerate' = <<>>
    /\ initializers' = <<>>
    /\ result' = [status |-> "running"]
    /\ UNCHANGED <<graph, inputs, outputs>>

NextTwice == Next \/ BuildAgain

InitTwice ==
    \/ InitWith(UnnamedGraphs(MaxValuesTwice), FALSE)
    \/ InitWith(NamedGraphs(MaxValuesTwice), TRUE)

SpecTwice == InitTwice /\ [][NextTwice]_vars

----------------------------------------------------------------------------
(* Reachability stated on the graph itself, independently of the           *)
(* traversal: the least set that holds the declared outputs and, with a    *)
(* tensor, the inputs of the operation that produces it.                   *)

ProducerInputs(S) ==
    UNION {Range(graph[graph[v].parent].inputs) : v \in {w \in S : graph[w].parent # 0}}

RECURSIVE Closure(_)
Closure(S) ==
    LET bigger == S \cup ProducerInputs(S)
    IN  IF bigger = S THEN S ELSE Closure(bigger)

ReachableValues == Closure({outputs[i][2] : i \in 1..Len(outputs)})

ReachableOperations == {graph[v].parent : v \in ReachableValues} \ {0}

Consumers(v) == {n \in Operations : v \in Range(get_input_tensors(n))}

Returned == pc = "returned"

ReturnedOk == pc = "returned" /\ result.status = "Ok"

PastNaming == pc \in {"named", "gathered", "initializers"} \/ (Returned /\ weight_storage # "unset")

\* The explicit names two distinct reachable tensors both carry.
ConflictNames ==
    {s \in ExplicitNames :
        \E v1, v2 \in ReachableValues :
            v1 # v2 /\ Tensor_get_name(v1) = s /\ Tensor_get_name(v2) = s}

\* The name of the last declaration of tensor t in `outputs`.
LastOutputName(t) ==
    outputs[CHOOSE i \in 1..Len(outputs) :
                /\ outputs[i][2] = t
                /\ \A j \in (i + 1)..Len(outputs) : outputs[j][2] # t][1]

----------------------------------------------------------------------------
(* C1.  Name injectivity: in the name table of a successful build_proto    *)
(* call two distinct tensors never have the same name.                     *)
C1_NamesInjective ==
    ReturnedOk =>
        \A v1, v2 \in DOMAIN tensor_names :
            v1 # v2 => tensor_names[v1] # tensor_names[v2]

(* C2 as claimed: every reachable tensor with an explicit name n is mapped *)
(* to n by a successful call, declared outputs included.                   *)
C2_ExplicitNamesKept_Original ==
    ReturnedOk =>
        \A t \in ReachableValues :
            Tensor_get_name(t) # NoName => tensor_names[t] = Tensor_get_name(t)

(* C2 as amended: a reachable tensor with an explicit name n that is not a *)
(* declared output is mapped to n; a declared output is mapped to the name *)
(* of its (last) declaration in the output list, whatever its own name.    *)
C2_ExplicitNamesKept ==
    ReturnedOk =>
        \A t \in ReachableValues :
            IF IsDeclaredOutput(t)
            THEN tensor_names[t] = LastOutputName(t)
            ELSE Tensor_get_name(t) # NoName => tensor_names[t] = Tensor_get_name(t)

C2_Witness ==
    /\ ReturnedOk
    /\ \E t \in ReachableValues : ~IsDeclaredOutput(t) /\ Tensor_get_name(t) # NoName
    /\ \E t \in ReachableValues :
          /\ IsDeclaredOutput(t)
          /\ Tensor_get_name(t) # NoName
          /\ Tensor_get_name(t) # LastOutputName(t)

(* C3 as claimed: whenever two distinct reachable tensors carry the same   *)
(* explicit name s, the call returns NameConflictError(s).                 *)
C3_NameConflict_Original ==
    Returned =>
        \A s \in ConflictNames :
            /\ result.status = "Err"
            /\ result.error = "NameConflictError"
            /\ result.name = s

(* C3 as amended: whenever some explicit name is carried by two distinct   *)
(* reachable tensors, the call returns NameConflictError(t) for one such   *)
(* name t (which one depends on the iteration order when several names are*)
(* duplicated), no descriptor, and returns before the weight strategy is   *)
(* instantiated: no manager exists and no call was made with one.          *)
C3_NameConflict ==
    ConflictNames # {} =>
        /\ pc \in {"start", "nodes", "tensors", "returned"}
        /\ Returned =>
              /\ result.status = "Err"
              /\ result.error = "NameConflictError"
              /\ result.name \in ConflictNames
              /\ weight_storage = "unset"
              /\ data_manager.kind = "none"
              /\ calls = <<>>

C3_Witness ==
    /\ Returned
    /\ ConflictNames = {"x"}
    /\ result.status = "Err"
    /\ result.name = "x"

(* C4.  Deduplicated reachability: the collected node set and tensor set   *)
(* are exactly the operations and tensors reachable from the outputs, each *)
(* identity once (the size of a set is the number of distinct identities), *)
(* every reachable tensor gets exactly one name, and the operation list of *)
(* a descriptor has exactly one entry per reachable operation.             *)
C4_DeduplicatedReachability ==
    /\ pc \notin {"start"} => nodes = ReachableOperations
    /\ pc \notin {"start", "nodes"} =>
          /\ tensors = ReachableValues
          /\ Range(tensor_order) = ReachableValues
          /\ Len(tensor_order) = Cardinality(ReachableValues)
    /\ PastNaming => DOMAIN tensor_names = ReachableValues
    /\ ReturnedOk =>
          /\ BagCardinality(result.graph.node) = Cardinality(ReachableOperations)
          /\ \A n \in ReachableOperations :
                BagCardinality([e \in {d \in BagToSet(result.graph.node) : d.of = n}
                                   |-> result.graph.node[e]]) = 1

\* A successful call on a graph where one tensor is consumed by three
\* reachable operations.
C4_Witness ==
    /\ ReturnedOk
    /\ \E v \in tensors : Cardinality(Consumers(v) \cap nodes) >= 3

(* C5.  A reachable multi-output operation is in the node set once, and a  *)
(* slot of it is in the tensor set exactly when it is consumed by a        *)
(* reachable operation or declared as an output: unused sibling slots are  *)
(* not in the set.                                                         *)
C5_MultiOutputSlots ==
    pc \notin {"start", "nodes"} =>
        \A s \in {v \in Values : graph[v].kind = "slot"} :
            /\ graph[s].parent \in ReachableOperations =>
                  /\ graph[s].parent \in nodes
                  /\ s \in tensors <=>
                        (IsDeclaredOutput(s) \/ Consumers(s) \cap nodes # {})
            /\ ReturnedOk /\ graph[s].parent \in nodes =>
                  Cardinality({d \in BagToSet(result.graph.node) : d.of = graph[s].parent}) = 1
                    /\ \A d \in BagToSet(result.graph.node) :
                          d.of = graph[s].parent => result.graph.node[d] = 1

\* A multi-output operation in the node set with slot 0 consumed downstream
\* and slot 1 used nowhere.
C5_Witness ==
    /\ pc = "tensors"
    /\ \E s \in Values :
          /\ graph[s].kind = "slot"
          /\ graph[s].index = 0
          /\ graph[s].parent \in nodes
          /\ Consumers(s) \cap nodes # {}
          /\ s \in tensors
          /\ (s + 1) \notin tensors

(* C6.  Classification: in a returned descriptor a tensor has an entry in  *)
(* value_info iff it is reachable and is neither a declared input nor a    *)
(* declared output; it then has exactly one entry, under its name of the   *)
(* name table.                                                             *)
C6_Classification ==
    ReturnedOk =>
        /\ \A v \in Values :
              Cardinality({i \in 1..Len(result.graph.value_info) :
                               result.graph.value_info[i].of = v})
                = IF v \in ReachableValues /\ ~IsDeclaredInput(v) /\ ~IsDeclaredOutput(v)
                  THEN 1 ELSE 0
        /\ \A i \in 1..Len(result.graph.value_info) :
              result.graph.value_info[i].name = tensor_names[result.graph.value_info[i].of]

\* A descriptor with a declared input, a declared output and an intermediate.
C6_Witness ==
    /\ ReturnedOk
    /\ Len(inputs) >= 1
    /\ Len(result.graph.value_info) >= 1

(* C7.  Weight-strategy protocol: once naming is over, gather_weights has  *)
(* been called exactly once on every reachable tensor, then                *)
(* finalize_tensor_data exactly once, and every get_initializer call comes *)
(* after it; before that no call was made.                                 *)
C7_WeightProtocol ==
    /\ pc \in {"start", "nodes", "tensors", "named"} => calls = <<>>
    /\ (pc \in {"gathered", "initializers"} \/ (Returned /\ weight_storage # "unset")) =>
          /\ \A t \in ReachableValues : Count(calls, <<"gather_weights", t>>) = 1
          /\ \A i \in 1..Len(calls) : calls[i][1] = "gather_weights" => calls[i][2] \in ReachableValues
          /\ Count(calls, <<"finalize_tensor_data", 0>>) = 1
          /\ data_manager.finalized
          /\ \A i, j \in 1..Len(calls) :
                /\ (calls[i][1] = "gather_weights" /\ calls[j][1] = "finalize_tensor_data") => i < j
                /\ (calls[i][1] = "finalize_tensor_data" /\ calls[j][1] = "get_initializer") => i < j
    /\ ReturnedOk =>
          \A t \in ReachableValues : Count(calls, <<"get_initializer", t>>) = 1

\* A returned descriptor of a graph with a constant and another tensor.
C7_Witness ==
    /\ ReturnedOk
    /\ Len(initializers) >= 1
    /\ Cardinality(tensors) >= 2

(* C8.  Generated names: every reachable tensor with neither an explicit   *)
(* name nor a declared-output name gets tensor_<k> for a candidate k that  *)
(* was tried; the candidates tried strictly increase, so none is tried     *)
(* twice; a generated name differs from every explicit name in the table,  *)
(* from every declared-output name and from every other generated name.    *)
Unnamed == {t \in ReachableValues : Tensor_get_name(t) = NoName /\ ~IsDeclaredOutput(t)}

C8_GeneratedNames ==
    PastNaming =>
        /\ \A t \in Unnamed :
              /\ \E i \in 1..Len(attempts) : tensor_names[t] = GeneratedName(attempts[i])
              /\ \A u \in ReachableValues : u # t => tensor_names[u] # tensor_names[t]
              /\ \A u \in ReachableValues : Tensor_get_name(u) # tensor_names[t]
              /\ \A i \in 1..Len(outputs) : outputs[i][1] # tensor_names[t]
        /\ \A i, j \in 1..Len(attempts) : i < j => attempts[i] < attempts[j]

\* An unnamed intermediate gets tensor_1 because a reachable tensor is
\* explicitly named "tensor_0": candidate 0 was tried and skipped.
C8_Witness ==
    /\ ReturnedOk
    /\ attempts = <<0, 1>>
    /\ \E t \in Unnamed : tensor_names[t] = "tensor_1"
    /\ \E u \in ReachableValues : Tensor_get_name(u) = "tensor_0"
    /\ \E i \in 1..Len(outputs) : outputs[i][1] = "out"

(* C10.  Name-table totality: at descriptor assembly every name lookup     *)
(* succeeds (declared inputs, the inputs and outputs of every reachable    *)
(* operation, the intermediates), so no call aborts on a missing key.      *)
C10_NameTableTotal ==
    /\ pc = "initializers" =>
          IndexedTensors \cup Range(tensors_to_enumerate) \subseteq DOMAIN tensor_names
    /\ Returned => result.status # "panic"

----------------------------------------------------------------------------
(* Two calls on the same graph (SpecTwice).                                *)

\* Both calls returned a descriptor and used different weight strategies.
TwoStrategies ==
    /\ ReturnedOk
    /\ prev.status = "Ok"
    /\ prev.weight_storage # weight_storage

ObjectsOf(list) == {list[i].of : i \in 1..Len(list)}

\* An initializer list without the payloads.
WithoutPayload(list) == [i \in 1..Len(list) |-> [of |-> list[i].of, name |-> list[i].name]]

====
